---- MODULE Spec2Model ----
(***************************************************************************)
(* The PWA install-prompt controller (PWAInstall): its three React state   *)
(* cells, the two window listeners registered by its mount effect, the     *)
(* asynchronous install click, the dismiss click, the render guard, and    *)
(* the platform around it (display mode, beforeinstallprompt events and    *)
(* their one-shot prompt()/userChoice, localStorage).                      *)
(*                                                                         *)
(* The organization repository browser (GitHubOrg): its four state cells,  *)
(* the fetchData effect with its awaits, the derived repository list and   *)
(* the three render states.  The two components share no state; each has   *)
(* its own specification.                                                  *)
(***************************************************************************)
EXTENDS Integers, Sequences, FiniteSets, Bags, TLC

\* Number of beforeinstallprompt events the platform dispatches in a run.
MaxHandles == 2
\* Number of Install clicks in a run that get as far as calling prompt().
MaxClicks == 3
\* Longest repository list the API returns in a run.
MaxRepos == 3
\* Largest stargazers_count in a returned repository.
MaxStars == 1

\* JavaScript null: the empty deferredPrompt, and getItem's "no such key".
Null == 0
NoRecord == "null"
\* The value handleDismiss stores under "pwa-install-dismissed".
DismissedValue == "true"

Handles == 1..MaxHandles

VARIABLES
  isStandalone,       \* matchMedia("(display-mode: standalone)").matches
  isInWebAppiOS,      \* navigator.standalone === true
  mounted,            \* a PWAInstall instance is mounted
  deferredPrompt,     \* useState: the captured event, or Null
  showInstallBanner,  \* useState
  isInstalled,        \* useState
  bipListeners,       \* registered "beforeinstallprompt" listeners
  aiListeners,        \* registered "appinstalled" listeners
  storage,            \* localStorage["pwa-install-dismissed"]
  nextHandle,         \* the next event object the platform will dispatch
  promptCalls,        \* per event object: how often prompt() was invoked
  userChoice,         \* per event object: state of its userChoice promise
  pending,            \* bag of suspended handleInstallClick invocations
  rendered,           \* what the last render returned: "null" or "banner"
  lastOp,             \* the handler or continuation that ran last
  thrown,             \* the last handler let an exception escape
  org,                \* GitHubOrg useState: organization data, or "null"
  repos,              \* GitHubOrg useState: the derived repository list
  loading,            \* GitHubOrg useState
  error,              \* GitHubOrg useState: a message, or "null"
  fetchPc,            \* where fetchData is suspended
  reposData,          \* fetchData's reposData, once parsed
  requests,           \* fetch() calls issued so far
  orgView             \* what GitHubOrg's last render returned

pwaVars == <<isStandalone, isInWebAppiOS, mounted, deferredPrompt,
             showInstallBanner, isInstalled, bipListeners, aiListeners,
             storage, nextHandle, promptCalls, userChoice, pending, rendered,
             lastOp, thrown>>

orgVars == <<org, repos, loading, error, fetchPc, reposData, requests,
             orgView>>

vars == <<pwaVars, orgVars>>

platform == <<isStandalone, isInWebAppiOS>>

Op(name, live) == [op |-> name, live |-> live]

\* A suspended invocation of handleInstallClick: the event object its closure
\* captured, the await it is suspended at, and whether the instance whose
\* setState functions it holds is still mounted.
Request(h, stage, live) == [h |-> h, stage |-> stage, live |-> live]

Requests ==
  [h : {Null} \cup Handles, stage : {"prompt", "choice"}, live : BOOLEAN]

Add(bag, r) == bag (+) SetToBag({r})

Remove(bag, r) == bag (-) SetToBag({r})

\* All prompt() invocations of the run.
RECURSIVE SumUpTo(_, _)
SumUpTo(calls, n) == IF n = 0 THEN 0 ELSE calls[n] + SumUpTo(calls, n - 1)

TotalCalls(calls) == SumUpTo(calls, MaxHandles)

\* The bag after unmounting: every invocation now belongs to a dead instance.
Orphaned(bag) ==
  LET dead(r) == [r EXCEPT !.live = FALSE]
      count(d) == IF d \in BagToSet(bag) THEN bag[d] ELSE 0
      total(d) == count(d) + count([d EXCEPT !.live = TRUE])
      image == {dead(r) : r \in BagToSet(bag)}
  IN  [d \in image |-> total(d)]

\* !deferredPrompt: the state cell holds an event object or null.
NoPrompt(dp) == dp = Null

\* !dismissed: getItem returns null or a string, and the empty string is
\* falsy too.
NotDismissed(v) == v = NoRecord \/ v = ""

----------------------------------------------------------------------------
(* The render guard. *)

RenderNoShowCheck(inst, show, dp) ==
  IF inst \/ NoPrompt(dp) THEN "null" ELSE "banner"

Render(inst, show, dp) ==
  IF inst \/ ~show \/ NoPrompt(dp) THEN "null" ELSE "banner"

----------------------------------------------------------------------------
(* The mount effect and its cleanup. *)

AlreadyInstalled(standalone, ios) == standalone \/ ios

ListenersAfterMountNoReturn(installedAtMount, n) == n + 1

\* The early return of the effect skips both addEventListener calls.
ListenersAfterMount(installedAtMount, n) ==
  IF installedAtMount THEN n ELSE n + 1

ListenersAfterCleanupLeaked(installedAtMount, n) == n

\* The cleanup is returned only on the path that registered the listeners.
ListenersAfterCleanup(installedAtMount, n) ==
  IF installedAtMount THEN n ELSE n - 1

\* GitHubOrg as constructed, before its effect has run.
OrgConstructed ==
  /\ org = "null"
  /\ repos = <<>>
  /\ loading = TRUE
  /\ error = "null"
  /\ fetchPc = "mount"
  /\ reposData = <<>>
  /\ requests = 0
  /\ orgView = "loading"

Init ==
  /\ OrgConstructed
  /\ isStandalone \in BOOLEAN
  /\ isInWebAppiOS \in BOOLEAN
  /\ mounted = FALSE
  /\ deferredPrompt = Null
  /\ showInstallBanner = FALSE
  /\ isInstalled = FALSE
  /\ bipListeners = 0
  /\ aiListeners = 0
  /\ storage \in {NoRecord, DismissedValue}
  /\ nextHandle = 1
  /\ promptCalls = [h \in Handles |-> 0]
  /\ userChoice = [h \in Handles |-> "unsettled"]
  /\ pending = EmptyBag
  /\ rendered = "null"
  /\ lastOp = Op("init", FALSE)
  /\ thrown = FALSE

Mount ==
  /\ ~mounted
  /\ mounted' = TRUE
  /\ deferredPrompt' = Null
  /\ showInstallBanner' = FALSE
  /\ isInstalled' = AlreadyInstalled(isStandalone, isInWebAppiOS)
  /\ bipListeners' =
       ListenersAfterMount(AlreadyInstalled(isStandalone, isInWebAppiOS),
                           bipListeners)
  /\ aiListeners' =
       ListenersAfterMount(AlreadyInstalled(isStandalone, isInWebAppiOS),
                           aiListeners)
  /\ rendered' = Render(isInstalled', showInstallBanner', deferredPrompt')
  /\ lastOp' = Op("mount", TRUE)
  /\ thrown' = FALSE
  /\ UNCHANGED <<orgVars, platform, storage, nextHandle, promptCalls, userChoice,
                 pending>>

\* Unmounting runs the cleanup and discards the instance's state; the
\* suspended invocations keep running but their setState calls reach nothing.
Unmount ==
  /\ mounted
  /\ mounted' = FALSE
  /\ deferredPrompt' = Null
  /\ showInstallBanner' = FALSE
  /\ isInstalled' = FALSE
  /\ bipListeners' =
       ListenersAfterCleanup(AlreadyInstalled(isStandalone, isInWebAppiOS),
                             bipListeners)
  /\ aiListeners' =
       ListenersAfterCleanup(AlreadyInstalled(isStandalone, isInWebAppiOS),
                             aiListeners)
  /\ pending' = Orphaned(pending)
  /\ rendered' = "null"
  /\ lastOp' = Op("unmount", FALSE)
  /\ thrown' = FALSE
  /\ UNCHANGED <<orgVars, platform, storage, nextHandle, promptCalls, userChoice>>

----------------------------------------------------------------------------
(* The two window listeners. *)

ShowAfterPromptIgnoringRecord(dismissed, show) == TRUE

\* const dismissed = getItem(...); if (!dismissed) setShowInstallBanner(true)
ShowAfterPrompt(dismissed, show) ==
  IF NotDismissed(dismissed) THEN TRUE ELSE show

\* The handler has no try/catch: a throwing getItem leaves the listener.
PromptReadEscapes(readFails) == readFails

\* The platform dispatches a fresh beforeinstallprompt event; the handler
\* runs when it is registered.  setDeferredPrompt(e) is queued before
\* localStorage.getItem is called, so it takes effect also when getItem
\* throws (storage access denied); the statements after the read are then
\* skipped.
BeforeInstallPrompt(readFails) ==
  /\ nextHandle <= MaxHandles
  /\ readFails => (bipListeners > 0 /\ mounted)
  /\ nextHandle' = nextHandle + 1
  /\ IF bipListeners > 0 /\ mounted
       THEN /\ deferredPrompt' = nextHandle
            /\ showInstallBanner' =
                 IF readFails
                   THEN showInstallBanner
                   ELSE ShowAfterPrompt(storage, showInstallBanner)
       ELSE UNCHANGED <<deferredPrompt, showInstallBanner>>
  /\ rendered' = IF mounted
                   THEN Render(isInstalled, showInstallBanner', deferredPrompt')
                   ELSE "null"
  /\ lastOp' = Op("beforeinstallprompt", bipListeners > 0 /\ mounted)
  /\ thrown' = PromptReadEscapes(readFails)
  /\ UNCHANGED <<orgVars, platform, mounted, isInstalled, bipListeners, aiListeners,
                 storage, promptCalls, userChoice, pending>>

PromptAfterAppInstalledKept(dp) == dp

PromptAfterAppInstalled(dp) == Null

AppInstalled ==
  /\ IF aiListeners > 0 /\ mounted
       THEN /\ isInstalled' = TRUE
            /\ showInstallBanner' = FALSE
            /\ deferredPrompt' = PromptAfterAppInstalled(deferredPrompt)
       ELSE UNCHANGED <<isInstalled, showInstallBanner, deferredPrompt>>
  /\ rendered' = IF mounted
                   THEN Render(isInstalled', showInstallBanner', deferredPrompt')
                   ELSE "null"
  /\ lastOp' = Op("appinstalled", aiListeners > 0 /\ mounted)
  /\ thrown' = FALSE
  /\ UNCHANGED <<orgVars, platform, mounted, bipListeners, aiListeners, storage,
                 nextHandle, promptCalls, userChoice, pending>>

----------------------------------------------------------------------------
(* handleInstallClick: the synchronous part up to the first await, and the *)
(* two continuations.                                                      *)

ClickProceedsAlways(dp) == TRUE

\* if (!deferredPrompt) return
ClickProceeds(dp) == ~NoPrompt(dp)

\* The Install button exists only while the banner is rendered, and its
\* handler closes over the deferredPrompt of that render; the early return
\* is reached only by invoking the handler while deferredPrompt is null.
InstallClick ==
  /\ mounted
  /\ rendered = "banner" \/ NoPrompt(deferredPrompt)
  /\ IF ClickProceeds(deferredPrompt)
       THEN /\ TotalCalls(promptCalls) < MaxClicks
            /\ BagCardinality(pending) < MaxClicks
            /\ pending' = Add(pending, Request(deferredPrompt, "prompt", TRUE))
            /\ promptCalls' =
                 IF deferredPrompt \in Handles
                   THEN [promptCalls EXCEPT ![deferredPrompt] = @ + 1]
                   ELSE promptCalls
            /\ lastOp' = Op("install", TRUE)
       ELSE /\ UNCHANGED <<pending, promptCalls>>
            /\ lastOp' = Op("installNoHandle", TRUE)
  /\ thrown' = FALSE
  /\ UNCHANGED <<orgVars, platform, mounted, deferredPrompt, showInstallBanner,
                 isInstalled, bipListeners, aiListeners, storage, nextHandle,
                 userChoice, rendered>>

FailureEscapesUncaught(failed) == failed

\* The try/catch around both awaits logs the error and ends the handler.
FailureEscapes(failed) == FALSE

ShowAfterFailureHidden(show) == FALSE

\* The catch block sets no state.
ShowAfterFailure(show) == show

\* setDeferredPrompt(null) is the last statement of the try block, so a
\* rejected await skips it.
PromptAfterFailure(dp) == dp

\* await deferredPrompt.prompt() settles.
SettlePrompt(r, ok) ==
  /\ r \in BagToSet(pending)
  /\ r.stage = "prompt"
  /\ IF ok
       THEN /\ pending' = Add(Remove(pending, r), [r EXCEPT !.stage = "choice"])
            /\ lastOp' = Op("promptResolved", r.live)
            /\ thrown' = FALSE
            /\ UNCHANGED <<deferredPrompt, showInstallBanner, rendered>>
       ELSE /\ pending' = Remove(pending, r)
            /\ lastOp' = Op("promptRejected", r.live)
            /\ thrown' = FailureEscapes(TRUE)
            /\ IF r.live /\ mounted
                 THEN /\ deferredPrompt' = PromptAfterFailure(deferredPrompt)
                      /\ showInstallBanner' =
                           ShowAfterFailure(showInstallBanner)
                      /\ rendered' = Render(isInstalled, showInstallBanner',
                                            deferredPrompt')
                 ELSE UNCHANGED <<deferredPrompt, showInstallBanner, rendered>>
  /\ UNCHANGED <<orgVars, platform, mounted, isInstalled, bipListeners, aiListeners,
                 storage, nextHandle, promptCalls, userChoice>>

ShowAfterChoiceAlwaysHidden(outcome, show) == FALSE

\* if (outcome === "accepted") setShowInstallBanner(false)
ShowAfterChoice(outcome, show) ==
  IF outcome = "accepted" THEN FALSE ELSE show

\* setDeferredPrompt(null), whatever the outcome
PromptAfterChoice(outcome, dp) == Null

StorageAfterChoiceRecorded(outcome, store) ==
  IF outcome = "dismissed" THEN DismissedValue ELSE store

\* handleInstallClick never touches localStorage, whatever the outcome.
StorageAfterChoice(outcome, store) == store

\* await deferredPrompt.userChoice settles.  One event object has one
\* userChoice promise, so every invocation awaiting it sees the same result.
SettleChoice(r, outcome) ==
  /\ r \in BagToSet(pending)
  /\ r.stage = "choice"
  /\ r.h \in Handles
  /\ userChoice[r.h] \in {"unsettled", outcome}
  /\ userChoice' = [userChoice EXCEPT ![r.h] = outcome]
  /\ pending' = Remove(pending, r)
  /\ lastOp' = Op(outcome, r.live)
  /\ thrown' = IF outcome = "rejected" THEN FailureEscapes(TRUE) ELSE FALSE
  /\ storage' = StorageAfterChoice(outcome, storage)
  /\ IF r.live /\ mounted
       THEN /\ showInstallBanner' =
                 IF outcome = "rejected"
                   THEN ShowAfterFailure(showInstallBanner)
                   ELSE ShowAfterChoice(outcome, showInstallBanner)
            /\ deferredPrompt' =
                 IF outcome = "rejected"
                   THEN PromptAfterFailure(deferredPrompt)
                   ELSE PromptAfterChoice(outcome, deferredPrompt)
            /\ rendered' = Render(isInstalled, showInstallBanner',
                                  deferredPrompt')
       ELSE UNCHANGED <<deferredPrompt, showInstallBanner, rendered>>
  /\ UNCHANGED <<orgVars, platform, mounted, isInstalled, bipListeners, aiListeners,
                 nextHandle, promptCalls>>

----------------------------------------------------------------------------
(* handleDismiss *)

ShowAfterDismissWriteFirst(show, writeFails) ==
  IF writeFails THEN show ELSE FALSE

ShowAfterDismissKept(show, writeFails) == show

\* setShowInstallBanner(false) is queued before setItem is called, so it
\* takes effect whether or not setItem throws.
ShowAfterDismiss(show, writeFails) == FALSE

\* localStorage.setItem(key, "true"); a throwing setItem stores nothing.
StorageAfterSetItem(store, writeFails) ==
  IF writeFails THEN store ELSE DismissedValue

\* handleDismiss has no try/catch: a throwing setItem leaves the handler.
DismissEscapes(writeFails) == writeFails

DismissClick(writeFails) ==
  /\ mounted
  /\ rendered = "banner"
  /\ showInstallBanner' = ShowAfterDismiss(showInstallBanner, writeFails)
  /\ storage' = StorageAfterSetItem(storage, writeFails)
  /\ rendered' = Render(isInstalled, showInstallBanner', deferredPrompt)
  /\ lastOp' = Op(IF writeFails THEN "dismissWriteFailed" ELSE "dismiss", TRUE)
  /\ thrown' = DismissEscapes(writeFails)
  /\ UNCHANGED <<orgVars, platform, mounted, deferredPrompt, isInstalled, bipListeners,
                 aiListeners, nextHandle, promptCalls, userChoice, pending>>

----------------------------------------------------------------------------
(* GitHubOrg: repository names, the filter and the sort.                   *)

\* Repository names are sequences of characters.
DotGithub == <<".", "g", "i", "t", "h", "u", "b">>

RepoNames ==
  { <<"a", "p", "p">>,
    <<".", "g", "i", "t">>,
    DotGithub,
    <<"x">> \o DotGithub \o <<".", "i", "o">> }

Repositories == [name : RepoNames, stargazers_count : 0..MaxStars]

\* The repository lists reposResponse.json() may return.
RepoLists == UNION {[1..n -> Repositories] : n \in 0..MaxRepos}

\* String.prototype.includes
Includes(str, sub) ==
  \E i \in 1..(Len(str) - Len(sub) + 1) :
    SubSeq(str, i, i + Len(sub) - 1) = sub

KeepRepoExactName(repo) == repo.name # DotGithub

\* .filter((repo) => !repo.name.includes(".github"))
KeepRepo(repo) == ~Includes(repo.name, DotGithub)

CompareAscending(a, b) == a.stargazers_count - b.stargazers_count

\* (a, b) => b.stargazers_count - a.stargazers_count
Compare(a, b) == b.stargazers_count - a.stargazers_count

\* Array.prototype.sort is stable: an element goes behind every element the
\* comparator does not put after it.
InsertSorted(sorted, a) ==
  LET before == {i \in 1..Len(sorted) : Compare(sorted[i], a) <= 0}
      k == IF before = {} THEN 0
           ELSE CHOOSE i \in before : \A j \in before : j <= i
  IN  SubSeq(sorted, 1, k) \o <<a>> \o SubSeq(sorted, k + 1, Len(sorted))

RECURSIVE SortFrom(_, _, _)
SortFrom(list, i, sorted) ==
  IF i > Len(list) THEN sorted
  ELSE SortFrom(list, i + 1, InsertSorted(sorted, list[i]))

Sort(list) == SortFrom(list, 1, <<>>)

\* const filteredRepos = reposData.filter(...).sort(...)
FilteredRepos(data) == Sort(SelectSeq(data, KeepRepo))

----------------------------------------------------------------------------
(* GitHubOrg: the fetchData effect and the render states.                  *)

\* What an await of fetchData can throw: the two errors the code raises on a
\* response that is not ok, and an Error raised by fetch() or json().
FailedOrg == [isError |-> TRUE, message |-> "Failed to fetch organization"]
FailedRepos == [isError |-> TRUE, message |-> "Failed to fetch repositories"]
PlatformError == [isError |-> TRUE, message |-> "Failed to fetch"]

\* err instanceof Error ? err.message : "An error occurred"
ErrorMessage(err) == IF err.isError THEN err.message ELSE "An error occurred"

\* if (error): null and the empty string are falsy.
NoError(e) == e = "null" \/ e = ""

OrgRender(isLoading, e) ==
  IF isLoading THEN "loading"
  ELSE IF ~NoError(e) THEN "error"
  ELSE "ready"

LoadingAfterFetchNoFinally(failed) == failed

\* finally { setLoading(false) } runs after the try and after the catch.
LoadingAfterFetch(failed) == FALSE

\* catch (err) { setError(...) } finally { setLoading(false) }
FetchFailed(err) ==
  /\ error' = ErrorMessage(err)
  /\ loading' = LoadingAfterFetch(TRUE)
  /\ fetchPc' = "done"
  /\ orgView' = OrgRender(loading', error')

\* The effect runs once after mount: setLoading(true), first fetch().
OrgMount ==
  /\ fetchPc = "mount"
  /\ loading' = TRUE
  /\ requests' = requests + 1
  /\ fetchPc' = "awaitOrg"
  /\ orgView' = OrgRender(loading', error)
  /\ UNCHANGED <<org, repos, error, reposData, pwaVars>>

\* await fetch(.../orgs/boringcode-dev) settles.
OrgResponse(outcome) ==
  /\ fetchPc = "awaitOrg"
  /\ CASE outcome = "ok" ->
            /\ fetchPc' = "awaitOrgJson"
            /\ UNCHANGED <<error, loading, orgView>>
       [] outcome = "notOk" -> FetchFailed(FailedOrg)
       [] OTHER -> FetchFailed(PlatformError)
  /\ UNCHANGED <<org, repos, reposData, requests, pwaVars>>

\* await orgResponse.json() settles; on success setOrg and the second fetch().
OrgJson(parsed) ==
  /\ fetchPc = "awaitOrgJson"
  /\ IF parsed
       THEN /\ org' = "orgData"
            /\ requests' = requests + 1
            /\ fetchPc' = "awaitRepos"
            /\ UNCHANGED <<error, loading, orgView>>
       ELSE /\ FetchFailed(PlatformError)
            /\ UNCHANGED <<org, requests>>
  /\ UNCHANGED <<repos, reposData, pwaVars>>

\* await fetch(.../repos?sort=updated&per_page=50) settles.
ReposResponse(outcome) ==
  /\ fetchPc = "awaitRepos"
  /\ CASE outcome = "ok" ->
            /\ fetchPc' = "awaitReposJson"
            /\ UNCHANGED <<error, loading, orgView>>
       [] outcome = "notOk" -> FetchFailed(FailedRepos)
       [] OTHER -> FetchFailed(PlatformError)
  /\ UNCHANGED <<org, repos, reposData, requests, pwaVars>>

\* await reposResponse.json() settles; on success filter, sort, setRepos,
\* and the finally block.
ReposJson ==
  /\ fetchPc = "awaitReposJson"
  /\ \/ \E data \in RepoLists :
          /\ reposData' = data
          /\ repos' = FilteredRepos(data)
          /\ loading' = LoadingAfterFetch(FALSE)
          /\ fetchPc' = "done"
          /\ orgView' = OrgRender(loading', error)
          /\ UNCHANGED error
     \/ /\ FetchFailed(PlatformError)
        /\ UNCHANGED <<repos, reposData>>
  /\ UNCHANGED <<org, requests, pwaVars>>

----------------------------------------------------------------------------

Next ==
  \/ Mount
  \/ Unmount
  \/ \E readFails \in BOOLEAN : BeforeInstallPrompt(readFails)
  \/ AppInstalled
  \/ InstallClick
  \/ \E r \in Requests, ok \in BOOLEAN : SettlePrompt(r, ok)
  \/ \E r \in Requests, outcome \in {"accepted", "dismissed", "rejected"} :
       SettleChoice(r, outcome)
  \/ \E writeFails \in BOOLEAN : DismissClick(writeFails)

Spec == Init /\ [][Next]_vars

\* The page around GitHubOrg: the install-prompt controller is not mounted.
ControllerIdle ==
  /\ isStandalone = FALSE
  /\ isInWebAppiOS = FALSE
  /\ mounted = FALSE
  /\ deferredPrompt = Null
  /\ showInstallBanner = FALSE
  /\ isInstalled = FALSE
  /\ bipListeners = 0
  /\ aiListeners = 0
  /\ storage = NoRecord
  /\ nextHandle = 1
  /\ promptCalls = [h \in Handles |-> 0]
  /\ userChoice = [h \in Handles |-> "unsettled"]
  /\ pending = EmptyBag
  /\ rendered = "null"
  /\ lastOp = Op("init", FALSE)
  /\ thrown = FALSE

OrgInit == OrgConstructed /\ ControllerIdle

Outcomes == {"ok", "notOk", "throws"}

OrgNext ==
  \/ OrgMount
  \/ \E outcome \in Outcomes : OrgResponse(outcome)
  \/ \E parsed \in BOOLEAN : OrgJson(parsed)
  \/ \E outcome \in Outcomes : ReposResponse(outcome)
  \/ ReposJson

OrgSpec == OrgInit /\ [][OrgNext]_vars

\* The effect runs after mount, and the browser settles every fetch() and
\* json() promise (with a response or with an error).
OrgFairSpec == OrgSpec /\ WF_vars(OrgNext)

TypeOK ==
  /\ mounted \in BOOLEAN
  /\ deferredPrompt \in {Null} \cup Handles
  /\ showInstallBanner \in BOOLEAN
  /\ isInstalled \in BOOLEAN
  /\ bipListeners \in 0..1
  /\ aiListeners \in 0..1
  /\ storage \in {NoRecord, DismissedValue}
  /\ nextHandle \in 1..(MaxHandles + 1)
  /\ IsABag(pending)
  /\ BagToSet(pending) \subseteq Requests
  /\ BagCardinality(pending) <= MaxClicks
  /\ rendered \in {"null", "banner"}

----------------------------------------------------------------------------
(* Properties of the install-prompt controller. *)

StandaloneAtMount == isStandalone \/ isInWebAppiOS

FailedInstall(op) == op \in {"promptRejected", "rejected"}

\* C1: a controller mounted while the platform reports standalone display
\* mode (or the iOS standalone flag) has installed = true, has registered
\* neither listener, and renders nothing, in every state and after any
\* platform event.
C1_StandaloneInert ==
  (mounted /\ StandaloneAtMount) =>
    /\ isInstalled
    /\ bipListeners = 0
    /\ aiListeners = 0
    /\ deferredPrompt = Null
    /\ rendered = "null"

\* A standalone controller is mounted and every installability signal of the
\* run has been dispatched at it.
C1_Witness ==
  /\ mounted
  /\ StandaloneAtMount
  /\ lastOp.op = "beforeinstallprompt"
  /\ nextHandle > 1
  /\ isInstalled

\* C2 as stated: an installability signal received by a mounted,
\* non-standalone controller stores the dispatched event as the handle; the
\* banner becomes visible when storage holds no dismissal record and stays
\* hidden when it holds one.
C2_SignalCapturesHandle ==
  [][(lastOp'.op = "beforeinstallprompt" /\ mounted /\ ~StandaloneAtMount) =>
       /\ deferredPrompt' = nextHandle
       /\ storage = NoRecord => showInstallBanner'
       /\ storage # NoRecord => (~showInstallBanner /\ ~showInstallBanner')]_vars

\* C2, amended: the signal always stores the dispatched event as the handle;
\* when the read of storage returns, the banner becomes visible if no
\* dismissal record exists and stays hidden if one exists; when the read
\* throws, bannerVisible is left as it was.
C2_SignalCapturesHandleReadOutcome ==
  [][(lastOp'.op = "beforeinstallprompt" /\ mounted /\ ~StandaloneAtMount) =>
       /\ deferredPrompt' = nextHandle
       /\ (~thrown' /\ storage = NoRecord) => showInstallBanner'
       /\ storage # NoRecord => (~showInstallBanner /\ ~showInstallBanner')
       /\ thrown' => showInstallBanner' = showInstallBanner]_vars

\* A signal arrived while no record was stored and the read of storage
\* threw: the handle is stored, the banner is hidden and nothing is rendered.
C2_Witness ==
  /\ lastOp.op = "beforeinstallprompt"
  /\ thrown
  /\ mounted
  /\ ~StandaloneAtMount
  /\ storage = NoRecord
  /\ deferredPrompt = nextHandle - 1
  /\ deferredPrompt # Null
  /\ ~showInstallBanner
  /\ rendered = "null"

\* C3: when a requestInstall made with a non-empty handle gets its outcome,
\* "accepted" leaves bannerVisible = false and handle = empty, and
\* "dismissed" leaves handle = empty and bannerVisible as it was; neither the
\* call itself nor the resolution of the trigger changes bannerVisible.
C3_InstallOutcome ==
  [][/\ (lastOp'.op = "accepted" /\ lastOp'.live) =>
          (~showInstallBanner' /\ deferredPrompt' = Null)
     /\ (lastOp'.op = "dismissed" /\ lastOp'.live) =>
          (showInstallBanner' = showInstallBanner /\ deferredPrompt' = Null)
     /\ lastOp'.op \in {"install", "promptResolved"} =>
          showInstallBanner' = showInstallBanner]_vars

\* The native prompt was dismissed while the banner was visible: the banner
\* flag is still true and the handle is gone.
C3_Witness ==
  /\ lastOp.op = "dismissed"
  /\ lastOp.live
  /\ mounted
  /\ showInstallBanner
  /\ deferredPrompt = Null

\* C4: the installed-confirmation event, received by a mounted controller at
\* any time (also while a requestInstall is suspended), sets installed = true,
\* bannerVisible = false and handle = empty; and while the controller stays
\* mounted no step sets installed back to false.
C4_InstalledWinsAndIsTerminal ==
  [][/\ (lastOp'.op = "appinstalled" /\ mounted) =>
          (isInstalled' /\ ~showInstallBanner' /\ deferredPrompt' = Null)
     /\ (mounted /\ mounted' /\ isInstalled) => isInstalled']_vars

\* After the installed-confirmation, a later installability signal has stored
\* a handle while a requestInstall made before it is still suspended, and
\* installed is still true.
C4_Witness ==
  /\ mounted
  /\ ~StandaloneAtMount
  /\ isInstalled
  /\ lastOp.op = "beforeinstallprompt"
  /\ deferredPrompt # Null
  /\ \E r \in BagToSet(pending) : r.live

\* C5 as stated: dismiss() always ends with bannerVisible = false and the
\* record "true" in storage, also when the storage write throws.
C5_DismissAlwaysPersists ==
  [][lastOp'.op \in {"dismiss", "dismissWriteFailed"} =>
       (~showInstallBanner' /\ storage' = DismissedValue)]_vars

\* C5, amended: dismiss() always ends with bannerVisible = false; storage
\* holds "true" afterwards when the write succeeds and is left as it was
\* when the write throws.
C5_DismissHidesBestEffortWrite ==
  [][/\ lastOp'.op \in {"dismiss", "dismissWriteFailed"} => ~showInstallBanner'
     /\ lastOp'.op = "dismiss" => storage' = DismissedValue
     /\ lastOp'.op = "dismissWriteFailed" => storage' = storage]_vars

\* dismiss() ran with a throwing setItem: the banner is hidden and storage
\* holds no record.
C5_Witness ==
  /\ lastOp.op = "dismissWriteFailed"
  /\ mounted
  /\ ~showInstallBanner
  /\ storage = NoRecord

\* C6: requestInstall() with an empty handle changes nothing: handle,
\* bannerVisible, installed and storage keep their values, no invocation is
\* suspended and no prompt() is invoked.
C6_EmptyHandleNoOp ==
  [][(lastOp'.op \in {"install", "installNoHandle"} /\ deferredPrompt = Null) =>
       UNCHANGED <<deferredPrompt, showInstallBanner, isInstalled, storage,
                   pending, promptCalls, rendered>>]_vars

\* requestInstall() ran with an empty handle while bannerVisible was true.
C6_Witness ==
  /\ lastOp.op = "installNoHandle"
  /\ mounted
  /\ deferredPrompt = Null
  /\ showInstallBanner

\* C7: when the trigger or the outcome promise of a requestInstall rejects,
\* the handle is empty once the call has completed.
C7_HandleClearedOnFailure ==
  [][(FailedInstall(lastOp'.op) /\ lastOp'.live) => deferredPrompt' = Null]_vars

\* C8: a failed trigger/await sequence does not leave requestInstall as an
\* exception, and no step of the failing call (the call, the trigger's
\* resolution, the rejection) changes bannerVisible or installed.
C8_FailureCaughtNoStateChange ==
  [][/\ FailedInstall(lastOp'.op) => ~thrown'
     /\ (FailedInstall(lastOp'.op)
           \/ lastOp'.op \in {"install", "promptResolved"}) =>
          UNCHANGED <<showInstallBanner, isInstalled>>]_vars

\* The outcome promise of a live request rejected while the banner was
\* visible.
C8_Witness ==
  /\ lastOp.op = "rejected"
  /\ lastOp.live
  /\ mounted
  /\ showInstallBanner
  /\ ~isInstalled
  /\ ~thrown

\* C9: the trigger operation of any one handle is invoked at most once.
C9_TriggerAtMostOnce == \A h \in Handles : promptCalls[h] <= 1

\* C10: the banner is rendered exactly when installed is false, bannerVisible
\* is true and handle is non-empty; otherwise nothing is rendered.
C10_RenderContract ==
  /\ rendered \in {"null", "banner"}
  /\ rendered = "banner" <=>
       (mounted /\ ~isInstalled /\ showInstallBanner /\ deferredPrompt # Null)

\* The banner is on screen.
C10_Witness ==
  /\ rendered = "banner"
  /\ mounted
  /\ deferredPrompt # Null

ControllerState == <<deferredPrompt, showInstallBanner, isInstalled, rendered>>

\* C11: in every state each of the two listener counts equals the number of
\* mounted non-standalone controllers (one while such a controller is
\* mounted, zero after its unmount, over any number of mount/unmount
\* cycles), and a platform event dispatched while no controller is mounted
\* changes no controller state.
C11_ListenersFollowMount ==
  /\ [](/\ bipListeners = IF mounted /\ ~StandaloneAtMount THEN 1 ELSE 0
        /\ aiListeners = IF mounted /\ ~StandaloneAtMount THEN 1 ELSE 0)
  /\ [][(~mounted /\ lastOp'.op \in {"beforeinstallprompt", "appinstalled"}) =>
          UNCHANGED ControllerState]_vars

\* An installability signal is dispatched after the unmount of a
\* non-standalone controller that had a request suspended: no listener is
\* left to receive it.
C11_Witness ==
  /\ ~mounted
  /\ ~StandaloneAtMount
  /\ lastOp.op = "beforeinstallprompt"
  /\ bipListeners = 0
  /\ aiListeners = 0
  /\ \E r \in BagToSet(pending) : ~r.live

\* C12: when the storage write of dismiss() fails, no error leaves dismiss()
\* and bannerVisible is false afterwards.
C12_DismissFailsSilently ==
  [][lastOp'.op = "dismissWriteFailed" => (~thrown' /\ ~showInstallBanner')]_vars

\* The step completes the prompt interaction of a request made on the handle
\* that is stored now: that request's userChoice gave its outcome.
CompletesStoredHandle ==
  /\ lastOp'.op \in {"accepted", "dismissed"}
  /\ \E r \in BagToSet(pending) :
       /\ r.h = deferredPrompt
       /\ r.stage = "choice"
       /\ pending' = Remove(pending, r)

\* C15: while a controller stays mounted, a stored handle becomes empty only
\* by the completed prompt interaction of a request on that same handle or by
\* the installed-confirmation signal; a request on an earlier handle that
\* resolves does not empty a fresh handle stored meanwhile.
C15_HandleEmptiedOnlyByOwnPrompt ==
  [][(mounted /\ mounted' /\ deferredPrompt # Null /\ deferredPrompt' = Null) =>
       (lastOp'.op = "appinstalled" \/ CompletesStoredHandle)]_vars

\* C16: once storage holds the dismissal record, no step removes or
\* overwrites it, and no step (an installability signal in the same session
\* or after a remount included) turns bannerVisible from false to true.
C16_RecordKeptBannerSuppressed ==
  [][storage = DismissedValue =>
       /\ storage' = DismissedValue
       /\ showInstallBanner' => showInstallBanner]_vars

\* The banner was shown for the first handle (its prompt() was invoked),
\* dismiss() wrote the record, the controller was remounted, and a new
\* installability signal stored the second handle without showing the banner.
C16_Witness ==
  /\ storage = DismissedValue
  /\ promptCalls[1] >= 1
  /\ \E r \in BagToSet(pending) : ~r.live
  /\ mounted
  /\ lastOp.op = "beforeinstallprompt"
  /\ lastOp.live
  /\ deferredPrompt = 2
  /\ ~showInstallBanner

\* C17 as stated: only dismiss() writes storage: every other step
\* (requestInstall with any outcome or a failure, both event handlers, mount
\* and unmount) leaves it unchanged; so an installability signal that
\* reaches a controller while no record is stored makes the banner visible,
\* also after the native prompt was dismissed.
C17_OnlyDismissWrites ==
  [][/\ lastOp'.op # "dismiss" => storage' = storage
     /\ (lastOp'.op = "beforeinstallprompt" /\ mounted /\ ~StandaloneAtMount
           /\ storage = NoRecord) => showInstallBanner']_vars

\* C17, amended: only dismiss() writes storage, every other step leaves it
\* unchanged; so an installability signal that reaches a controller while no
\* record is stored makes the banner visible when its read of storage
\* returns, also after the native prompt was dismissed, and leaves
\* bannerVisible as it was when the read throws.
C17_OnlyDismissWritesReadOutcome ==
  [][/\ lastOp'.op # "dismiss" => storage' = storage
     /\ (lastOp'.op = "beforeinstallprompt" /\ mounted /\ ~StandaloneAtMount
           /\ storage = NoRecord) =>
          IF thrown' THEN showInstallBanner' = showInstallBanner
          ELSE showInstallBanner']_vars

\* The native prompt of the first handle was dismissed, no record was
\* written, and the next installability signal shows the banner again.
C17_Witness ==
  /\ userChoice[1] = "dismissed"
  /\ ~thrown
  /\ storage = NoRecord
  /\ mounted
  /\ lastOp.op = "beforeinstallprompt"
  /\ lastOp.live
  /\ deferredPrompt = 2
  /\ showInstallBanner
  /\ rendered = "banner"

\* C18: in every state bannerVisible = true implies that storage holds no
\* dismissal record; bannerVisible turns true only while no record is stored,
\* and a step that writes the record leaves bannerVisible false.
C18_VisibleImpliesNoRecord ==
  /\ [](showInstallBanner => storage = NoRecord)
  /\ [][/\ (~showInstallBanner /\ showInstallBanner') => storage = NoRecord
        /\ storage' # storage => ~showInstallBanner']_vars

\* The second installability signal of the run made the banner visible while
\* no record was stored and no prompt of the first handle was ever requested.
C18_Witness ==
  /\ showInstallBanner
  /\ storage = NoRecord
  /\ mounted
  /\ lastOp.op = "beforeinstallprompt"
  /\ deferredPrompt = 2
  /\ userChoice[1] = "unsettled"
  /\ promptCalls[1] = 0

----------------------------------------------------------------------------
(* Properties of the organization repository browser. *)

\* C13: the repository browser always shows exactly one of loading, error
\* and ready (loading exactly while the loading flag is set, error only with
\* an error message); it starts in loading, eventually leaves loading on
\* every path, never returns to loading, and issues no request after leaving
\* it.
C13_LoadingEndsOnce ==
  /\ orgView = "loading"
  /\ [](/\ orgView \in {"loading", "error", "ready"}
        /\ orgView = "loading" <=> loading
        /\ orgView = "error" <=> (~loading /\ error # "null"))
  /\ <>(orgView # "loading")
  /\ [][orgView # "loading" =>
          (orgView' # "loading" /\ requests' = requests)]_vars

\* The first fetch succeeded, the second did not: the browser left loading
\* for the error state after two requests, with the organization stored.
C13_Witness ==
  /\ orgView = "error"
  /\ fetchPc = "done"
  /\ requests = 2
  /\ org = "orgData"
  /\ error = "Failed to fetch repositories"

Count(list, repo) == Cardinality({i \in 1..Len(list) : list[i] = repo})

\* C14: after a successful load the derived list holds exactly the returned
\* repositories whose name does not contain ".github", each as often as it
\* was returned, and stargazers_count never increases from one entry to the
\* next.
C14_FilteredAndSorted ==
  (fetchPc = "done" /\ error = "null") =>
    /\ \A repo \in Repositories :
         Count(repos, repo) =
           IF Includes(repo.name, DotGithub) THEN 0
           ELSE Count(reposData, repo)
    /\ \A i \in 1..(Len(repos) - 1) :
         repos[i].stargazers_count >= repos[i + 1].stargazers_count

\* The API returned three repositories, one named with ".github" inside a
\* longer name and one named ".git", with the fewer-starred of the kept two
\* first: the derived list holds the two kept ones, reordered.
C14_Witness ==
  /\ fetchPc = "done"
  /\ error = "null"
  /\ orgView = "ready"
  /\ Len(reposData) = 3
  /\ Len(repos) = 2
  /\ \E i \in 1..3 : reposData[i].name = <<"x">> \o DotGithub \o <<".", "i", "o">>
  /\ \E i \in 1..2 : repos[i].name = <<".", "g", "i", "t">>
  /\ repos[1].stargazers_count > repos[2].stargazers_count
  /\ \E i, j \in 1..3 :
       /\ i < j
       /\ reposData[i] = repos[2]
       /\ reposData[j] = repos[1]

====
